---- MODULE Spec2Model ----
(***************************************************************************)
(* AI Meeting Summarizer: the transcript parsing pipeline                   *)
(* (utils/transcript_parser.py), the retrying completion client            *)
(* (utils/gemini_meeting_api.py) and the Streamlit session logic (app.py). *)
(*                                                                         *)
(* A Python str is a sequence of one-character strings.  A fixed message   *)
(* of the program, or the text of an exception, is a one-element sequence  *)
(* holding the whole message, so that f-string formatting is               *)
(* concatenation.                                                          *)
(***************************************************************************)
EXTENDS Integers, Sequences, FiniteSets, TLC

VARIABLES
    \* make_gemini_call_with_retry: parameters, locals and what it has done
    max_retries, initial_delay, retries, delay, cpc, outcomes, sleeps, cret,
    \* preprocess_text applied to a string, and to its own result
    npc, text, once, twice,
    \* parse_transcript_data applied to a file object and a file type
    ppc, file_object, file_type_arg, parsed,
    \* extract_action_items and highlight_key_decisions applied to what the
    \* client returned
    bpc, client_response, extracted_items, highlighted_decisions,
    \* app.py: the file uploader's value, st.session_state, where the script
    \* stands, the error st.error shows, and the runs of the upload block since
    \* the user last acted
    uploaded_file, transcript_text, file_type, meeting_summary, action_items,
    key_decisions, discussion_topics, analysis_completed, last_uploaded_file_name,
    apc, st_error, upload_runs

client_vars == <<max_retries, initial_delay, retries, delay, cpc, outcomes, sleeps, cret>>

norm_vars == <<npc, text, once, twice>>

parse_vars == <<ppc, file_object, file_type_arg, parsed>>

session_vars ==
    <<transcript_text, file_type, meeting_summary, action_items, key_decisions,
      discussion_topics, analysis_completed, last_uploaded_file_name>>

app_vars == <<uploaded_file, session_vars, apc, st_error, upload_runs>>

bullet_vars == <<bpc, client_response, extracted_items, highlighted_decisions>>

vars == <<client_vars, norm_vars, parse_vars, bullet_vars, app_vars>>

(***************************************************************************)
(* Bounds of the model and constants of the program                        *)
(***************************************************************************)
MaxRetriesBound == 8
MaxInitialDelay == 2
MaxTextLen == 6
MaxContentLen == 4
MaxSrtLines == 3
MaxResponseLen == 6
UploadRunsCap == 3
DefaultMaxRetries == 7
DefaultInitialDelay == 1

\* every string over alphabet of length at most n
Strings(alphabet, n) == UNION { [1..k -> alphabet] : k \in 0..n }

(***************************************************************************)
(* Strings                                                                 *)
(***************************************************************************)
Whitespace == {" ", "\n", "\t", "\r"}

RECURSIVE lstrip(_)
lstrip(s) ==
    IF s # <<>> /\ Head(s) \in Whitespace THEN lstrip(Tail(s)) ELSE s

RECURSIVE rstrip(_)
rstrip(s) ==
    IF s # <<>> /\ s[Len(s)] \in Whitespace
    THEN rstrip(SubSeq(s, 1, Len(s) - 1))
    ELSE s

\* str.strip()
strip(s) == rstrip(lstrip(s))

(***************************************************************************)
(* Text normalisation (transcript_parser.py)                               *)
(***************************************************************************)
UpperChars == <<"A", "B", "C", "D", "E", "F", "G", "H", "I", "J", "K", "L", "M",
                "N", "O", "P", "Q", "R", "S", "T", "U", "V", "W", "X", "Y", "Z">>
LowerChars == <<"a", "b", "c", "d", "e", "f", "g", "h", "i", "j", "k", "l", "m",
                "n", "o", "p", "q", "r", "s", "t", "u", "v", "w", "x", "y", "z">>
Digits == {"0", "1", "2", "3", "4", "5", "6", "7", "8", "9"}

Range(f) == { f[i] : i \in DOMAIN f }

IsLetter(c) == c \in Range(UpperChars) \/ c \in Range(LowerChars)

\* \w
IsWordChar(c) == IsLetter(c) \/ c \in Digits \/ c = "_"

\* \s
IsSpace(c) == c \in Whitespace

LowerChar(c) ==
    IF c \in Range(UpperChars)
    THEN LowerChars[CHOOSE i \in DOMAIN UpperChars : UpperChars[i] = c]
    ELSE c

\* str.lower()
lower(s) == [i \in 1..Len(s) |-> LowerChar(s[i])]

\* s[i:] starts with p
StartsWithAt(s, i, p) ==
    /\ i + Len(p) - 1 <= Len(s)
    /\ SubSeq(s, i, i + Len(p) - 1) = p

\* the index just past the run of non-space characters that starts at i
RECURSIVE NonSpaceRunEnd(_, _)
NonSpaceRunEnd(s, i) ==
    IF i > Len(s) \/ IsSpace(s[i]) THEN i ELSE NonSpaceRunEnd(s, i + 1)

\* where a match of http\S+|www.\S+ that starts at i ends (exclusive); 0 when
\* there is none
UrlMatchEnd(s, i) ==
    IF /\ StartsWithAt(s, i, <<"h", "t", "t", "p">>)
       /\ i + 4 <= Len(s)
       /\ ~IsSpace(s[i + 4])
    THEN NonSpaceRunEnd(s, i + 4)
    ELSE IF /\ StartsWithAt(s, i, <<"w", "w", "w">>)
            /\ i + 4 <= Len(s)
            /\ s[i + 3] # "\n"
            /\ ~IsSpace(s[i + 4])
    THEN NonSpaceRunEnd(s, i + 4)
    ELSE 0

RECURSIVE RemoveUrlsFrom(_, _)
RemoveUrlsFrom(s, i) ==
    IF i > Len(s) THEN <<>>
    ELSE LET e == UrlMatchEnd(s, i)
         IN IF e > 0 THEN RemoveUrlsFrom(s, e)
            ELSE <<s[i]>> \o RemoveUrlsFrom(s, i + 1)

\* re.sub(r'http\S+|www.\S+', '', text)
remove_urls(s) == RemoveUrlsFrom(s, 1)

\* the index of the first ">" at or after i; 0 when there is none
RECURSIVE TagClose(_, _)
TagClose(s, i) ==
    IF i > Len(s) THEN 0
    ELSE IF s[i] = ">" THEN i
    ELSE TagClose(s, i + 1)

\* where a tag that opens at i ends (inclusive): "<" or "</" followed by a
\* letter, up to the next ">"; 0 when s[i:] opens no complete tag
TagEnd(s, i) ==
    IF /\ s[i] = "<"
       /\ \/ (i + 1 <= Len(s) /\ IsLetter(s[i + 1]))
          \/ (i + 2 <= Len(s) /\ s[i + 1] = "/" /\ IsLetter(s[i + 2]))
    THEN TagClose(s, i + 1)
    ELSE 0

RECURSIVE VisibleTextFrom(_, _)
VisibleTextFrom(s, i) ==
    IF i > Len(s) THEN <<>>
    ELSE LET e == TagEnd(s, i)
         IN IF e > 0 THEN VisibleTextFrom(s, e + 1)
            ELSE <<s[i]>> \o VisibleTextFrom(s, i + 1)

\* BeautifulSoup(text, 'html.parser').get_text(): the text outside the tags
\* (character references and comments are not in the model's alphabet)
remove_html_tags(s) == VisibleTextFrom(s, 1)

\* re.sub(r'[^\w\s]', '', text)
remove_punctuation(s) == SelectSeq(s, LAMBDA c : IsWordChar(c) \/ IsSpace(c))

\* preprocess_text(text, apply_lemmatization=False)
preprocess_text(s) ==
    strip(remove_punctuation(remove_html_tags(remove_urls(lower(s)))))

(***************************************************************************)
(* Transcript parsers and their dispatcher (transcript_parser.py)          *)
(***************************************************************************)
\* the index of the first "\n" of s; 0 when there is none
RECURSIVE NewlineFrom(_, _)
NewlineFrom(s, i) ==
    IF i > Len(s) THEN 0
    ELSE IF s[i] = "\n" THEN i
    ELSE NewlineFrom(s, i + 1)

\* the lines iterating a text file object yields: each keeps its "\n", and a
\* last line without one is yielded too
RECURSIVE FileLines(_)
FileLines(s) ==
    IF s = <<>> THEN <<>>
    ELSE LET n == NewlineFrom(s, 1)
         IN IF n = 0 THEN <<s>>
            ELSE <<SubSeq(s, 1, n)>> \o FileLines(SubSeq(s, n + 1, Len(s)))

\* content.split('\n')
RECURSIVE SplitNewline(_)
SplitNewline(s) ==
    LET n == NewlineFrom(s, 1)
    IN IF n = 0 THEN <<s>>
       ELSE <<SubSeq(s, 1, n - 1)>> \o SplitNewline(SubSeq(s, n + 1, Len(s)))

\* " ".join(parts)
RECURSIVE JoinSpace(_)
JoinSpace(parts) ==
    IF parts = <<>> THEN <<>>
    ELSE IF Len(parts) = 1 THEN parts[1]
    ELSE parts[1] \o <<" ">> \o JoinSpace(Tail(parts))

\* a faulty variant: empty results are kept too
NonEmptyAlways(u) == TRUE

\* if cleaned_line / if item.strip(): the str is not empty
NonEmpty(u) == u # <<>>

\* parse_txt_transcript(file_object, apply_lemmatization=False)
parse_txt_transcript(content) ==
    LET lines == FileLines(content)
        cleaned == [i \in 1..Len(lines) |-> preprocess_text(strip(lines[i]))]
    IN SelectSeq(cleaned, NonEmpty)

\* re.fullmatch(r'\d+', line)
IsIndexLine(line) == line # <<>> /\ \A i \in 1..Len(line) : line[i] \in Digits

\* \d{2}:\d{2}:\d{2},\d{3} --> \d{2}:\d{2}:\d{2},\d{3}, "d" standing for \d
TimestampPattern ==
    <<"d", "d", ":", "d", "d", ":", "d", "d", ",", "d", "d", "d",
      " ", "-", "-", ">", " ",
      "d", "d", ":", "d", "d", ":", "d", "d", ",", "d", "d", "d">>

\* a faulty variant: a line that starts like a timestamp (dd:dd:dd) is dropped
IsTimestampLike(line) ==
    /\ Len(line) >= 8
    /\ \A i \in 1..8 :
        IF TimestampPattern[i] = "d" THEN line[i] \in Digits
        ELSE line[i] = TimestampPattern[i]

\* re.fullmatch of the timestamp pattern
IsTimestampLine(line) ==
    /\ Len(line) = Len(TimestampPattern)
    /\ \A i \in 1..Len(line) :
        IF TimestampPattern[i] = "d" THEN line[i] \in Digits
        ELSE line[i] = TimestampPattern[i]

\* the end of a subtitle block: its lines joined, cleaned and kept when
\* something is left
FlushBlock(utterances, current) ==
    IF current = <<>> THEN utterances
    ELSE LET cleaned == preprocess_text(JoinSpace(current))
         IN IF cleaned # <<>> THEN Append(utterances, cleaned) ELSE utterances

RECURSIVE SrtLoop(_, _, _, _)
SrtLoop(lines, i, utterances, current) ==
    IF i > Len(lines) THEN FlushBlock(utterances, current)
    ELSE LET line == strip(lines[i])
         IN IF line = <<>>
            THEN SrtLoop(lines, i + 1, FlushBlock(utterances, current), <<>>)
            ELSE IF IsIndexLine(line) \/ IsTimestampLine(line)
            THEN SrtLoop(lines, i + 1, utterances, current)
            ELSE SrtLoop(lines, i + 1, utterances, Append(current, line))

\* parse_srt_transcript(file_object, apply_lemmatization=False)
parse_srt_transcript(content) == SrtLoop(SplitNewline(content), 1, <<>>, <<>>)

TXT == <<"t", "x", "t">>
SRT == <<"s", "r", "t">>

\* a faulty variant: every type but 'srt' is read as plain text
IsTxtUnlessSrt(ft) == ft # SRT

\* file_type == 'txt'
IsTxt(ft) == ft = TXT

\* file_type == 'srt'
IsSrt(ft) == ft = SRT

UnsupportedMsg(ft) ==
    <<"Unsupported transcript file type: ">> \o ft
        \o <<". Only TXT and SRT are supported.">>

\* parse_transcript_data(file_object, file_type, apply_lemmatization=False):
\* what it returns or raises, which parser ran and whether the file object
\* was read
parse_transcript_data(content, ft) ==
    IF IsTxt(ft)
    THEN [kind |-> "return", value |-> parse_txt_transcript(content),
          parser |-> "txt", read |-> TRUE]
    ELSE IF IsSrt(ft)
    THEN [kind |-> "return", value |-> parse_srt_transcript(content),
          parser |-> "srt", read |-> TRUE]
    ELSE [kind |-> "raise",
          exc |-> [type |-> "ValueError", msg |-> UnsupportedMsg(ft)],
          parser |-> "none", read |-> FALSE]

(***************************************************************************)
(* The completion service, as make_gemini_call_with_retry sees it          *)
(***************************************************************************)
None == [kind |-> "None"]

\* response.text of a response object
Texts ==
    { <<>>, <<" ">>, <<"o", "k">>, <<" ", "o", "k", "\n">>,
      <<"-", " ", "a", "-", " ", "b">>,
      <<"No action items identified", ".">>,
      <<"No key decisions identified", ".">> }

Responses == {None} \cup { [kind |-> "response", text |-> t] : t \in Texts }

RateLimitErrors ==
    { [type |-> "ResourceExhausted", msg |-> m] : m \in {"429 quota", "429 rate"} }

OtherErrors == { [type |-> "InternalServerError", msg |-> "500 internal"] }

\* evaluating response.prompt_feedback on None
AttributeError ==
    [type |-> "AttributeError",
     msg |-> "'NoneType' object has no attribute 'prompt_feedback'"]

\* str(e)
ExcStr(e) == <<e.msg>>

SentinelMsg == <<"AI response was empty or blocked, possibly due to safety settings.">>

FailedAfterMsg(m, e) ==
    <<"Failed to get response after ", ToString(m),
      " retries due to quota/rate limit: ">> \o ExcStr(e)

UnexpectedMsg(e) == <<"An unexpected API error occurred: ">> \o ExcStr(e)

UnknownFailureMsg == <<"Failed to get response after multiple retries (unknown reason).">>

Return(v) == [kind |-> "return", value |-> v]
Raise(e) == [kind |-> "raise", exc |-> e]
NoResult == [kind |-> "none"]

\* while retries < max_retries
LoopCondition(r, m) == r < m

\* if response and response.text
HasText(resp) == resp # None /\ resp.text # <<>>

\* a faulty variant: every exception is taken for a rate limit and retried
IsRateLimitAnyException(e) == TRUE

\* except exceptions.ResourceExhausted
IsRateLimit(e) == e.type = "ResourceExhausted"

\* a faulty variant: except ValueError, which lets other exceptions escape
IsCaughtValueErrorOnly(e) == e.type = "ValueError"

\* except Exception
IsCaught(e) == TRUE

\* a faulty variant: if retries <= max_retries
RetryAllowedInclusive(r, m) == r <= m

\* if retries < max_retries, after retries += 1
RetryAllowed(r, m) == r < m

\* a faulty variant: the delay grows by one time unit
BackoffDelayIncrement(d) == d + 1

\* a faulty variant: the delay is never doubled
BackoffDelayConstant(d) == d

\* delay *= 2
BackoffDelay(d) == d * 2

\* the try body after generate_content has returned resp: a result, or the
\* exception raised by the else branch's print on a missing response
TryBody(resp) ==
    IF HasText(resp) THEN Return(strip(resp.text))
    ELSE IF resp = None THEN Raise(AttributeError)
    ELSE Return(SentinelMsg)

\* the function has returned or raised r
Finish(r) ==
    /\ cpc' = "done"
    /\ cret' = r

\* the while condition, evaluated with r retries made: the loop body runs
\* again, or the loop ends and the function returns its last line
LoopOrExit(r, m) ==
    IF LoopCondition(r, m)
    THEN UNCHANGED <<cpc, cret>>
    ELSE Finish(Return(UnknownFailureMsg))

\* an exception e raised inside the try block
Handle(e) ==
    IF IsRateLimit(e) THEN
        /\ retries' = retries + 1
        /\ IF RetryAllowed(retries', max_retries)
           THEN /\ sleeps' = Append(sleeps, delay)
                /\ delay' = BackoffDelay(delay)
                /\ LoopOrExit(retries', max_retries)
           ELSE /\ Finish(Return(FailedAfterMsg(max_retries, e)))
                /\ UNCHANGED <<delay, sleeps>>
    ELSE /\ IF IsCaught(e) THEN Finish(Return(UnexpectedMsg(e)))
            ELSE Finish(Raise(e))
         /\ UNCHANGED <<retries, delay, sleeps>>

\* one iteration: generate_content returns a response
GenerateReturns ==
    /\ cpc = "loop"
    /\ \E resp \in Responses :
        /\ outcomes' = Append(outcomes, [kind |-> "return", resp |-> resp])
        /\ LET r == TryBody(resp)
           IN IF r.kind = "raise" THEN Handle(r.exc)
              ELSE Finish(r) /\ UNCHANGED <<retries, delay, sleeps>>
    /\ UNCHANGED <<max_retries, initial_delay>>

\* one iteration: generate_content raises ResourceExhausted
GenerateRateLimited ==
    /\ cpc = "loop"
    /\ \E e \in RateLimitErrors :
        /\ outcomes' = Append(outcomes, [kind |-> "raise", exc |-> e])
        /\ Handle(e)
    /\ UNCHANGED <<max_retries, initial_delay>>

\* one iteration: generate_content raises another exception
GenerateFails ==
    /\ cpc = "loop"
    /\ \E e \in OtherErrors :
        /\ outcomes' = Append(outcomes, [kind |-> "raise", exc |-> e])
        /\ Handle(e)
    /\ UNCHANGED <<max_retries, initial_delay>>

\* the client's state on entry to make_gemini_call_with_retry(prompt, model, m, d)
Entered(m, d) ==
    [max_retries |-> m, initial_delay |-> d, retries |-> 0, delay |-> d,
     cpc |-> IF LoopCondition(0, m) THEN "loop" ELSE "done",
     outcomes |-> <<>>, sleeps |-> <<>>,
     cret |-> IF LoopCondition(0, m) THEN NoResult ELSE Return(UnknownFailureMsg)]

\* no invocation is running
Idle ==
    [max_retries |-> 0, initial_delay |-> 0, retries |-> 0, delay |-> 0,
     cpc |-> "idle", outcomes |-> <<>>, sleeps |-> <<>>, cret |-> NoResult]

ClientIs(c) ==
    /\ max_retries = c.max_retries
    /\ initial_delay = c.initial_delay
    /\ retries = c.retries
    /\ delay = c.delay
    /\ cpc = c.cpc
    /\ outcomes = c.outcomes
    /\ sleeps = c.sleeps
    /\ cret = c.cret

ClientBecomes(c) ==
    /\ max_retries' = c.max_retries
    /\ initial_delay' = c.initial_delay
    /\ retries' = c.retries
    /\ delay' = c.delay
    /\ cpc' = c.cpc
    /\ outcomes' = c.outcomes
    /\ sleeps' = c.sleeps
    /\ cret' = c.cret

NormIdle == npc = "idle" /\ text = <<>> /\ once = <<>> /\ twice = <<>>

ParseIdle ==
    /\ ppc = "idle"
    /\ file_object = <<>>
    /\ file_type_arg = <<>>
    /\ parsed = NoResult

BulletIdle ==
    /\ bpc = "idle"
    /\ client_response = <<>>
    /\ extracted_items = <<>>
    /\ highlighted_decisions = <<>>

\* Python's None where a str may stand: no str holds this element
NoneStr == <<"None">>

\* st.session_state after lines 47-62 have run on an empty session
SessionDefaults ==
    [transcript_text |-> <<>>, file_type |-> NoneStr, meeting_summary |-> <<>>,
     action_items |-> <<>>, key_decisions |-> <<>>, discussion_topics |-> <<>>,
     analysis_completed |-> FALSE, last_uploaded_file_name |-> NoneStr]

SessionIs(d) ==
    /\ transcript_text = d.transcript_text
    /\ file_type = d.file_type
    /\ meeting_summary = d.meeting_summary
    /\ action_items = d.action_items
    /\ key_decisions = d.key_decisions
    /\ discussion_topics = d.discussion_topics
    /\ analysis_completed = d.analysis_completed
    /\ last_uploaded_file_name = d.last_uploaded_file_name

SessionBecomes(d) ==
    /\ transcript_text' = d.transcript_text
    /\ file_type' = d.file_type
    /\ meeting_summary' = d.meeting_summary
    /\ action_items' = d.action_items
    /\ key_decisions' = d.key_decisions
    /\ discussion_topics' = d.discussion_topics
    /\ analysis_completed' = d.analysis_completed
    /\ last_uploaded_file_name' = d.last_uploaded_file_name

\* the app as first loaded: nothing uploaded, the script at rest
AppIdle ==
    /\ uploaded_file = None
    /\ SessionIs(SessionDefaults)
    /\ apc = "rest"
    /\ st_error = <<>>
    /\ upload_runs = 0

(***************************************************************************)
(* One invocation of make_gemini_call_with_retry, with any parameters      *)
(***************************************************************************)
InitClient ==
    /\ \E m \in 0..MaxRetriesBound, d \in 1..MaxInitialDelay : ClientIs(Entered(m, d))
    /\ NormIdle
    /\ BulletIdle
    /\ ParseIdle
    /\ AppIdle

NextClient ==
    \/ GenerateReturns /\ UNCHANGED <<norm_vars, parse_vars, bullet_vars, app_vars>>
    \/ GenerateRateLimited /\ UNCHANGED <<norm_vars, parse_vars, bullet_vars, app_vars>>
    \/ GenerateFails /\ UNCHANGED <<norm_vars, parse_vars, bullet_vars, app_vars>>

SpecClient == InitClient /\ [][NextClient]_vars

\* the loop runs on: every service call returns or raises
FairSpecClient == SpecClient /\ WF_vars(NextClient)

(***************************************************************************)
(* preprocess_text on every short string, then on its own result           *)
(***************************************************************************)
NormAlphabet == {"w", "W", "-", " ", "<", ">"}

InitNorm ==
    /\ npc = "input"
    /\ text \in Strings(NormAlphabet, MaxTextLen)
    /\ once = <<>>
    /\ twice = <<>>
    /\ ClientIs(Idle)
    /\ ParseIdle
    /\ BulletIdle
    /\ AppIdle

Normalize ==
    /\ npc = "input"
    /\ once' = preprocess_text(text)
    /\ npc' = "once"
    /\ UNCHANGED <<text, twice, client_vars, parse_vars, bullet_vars, app_vars>>

NormalizeAgain ==
    /\ npc = "once"
    /\ twice' = preprocess_text(once)
    /\ npc' = "twice"
    /\ UNCHANGED <<text, once, client_vars, parse_vars, bullet_vars, app_vars>>

NextNorm == Normalize \/ NormalizeAgain

SpecNorm == InitNorm /\ [][NextNorm]_vars

(***************************************************************************)
(* parse_transcript_data on short contents and spellings of the file type  *)
(***************************************************************************)
ContentAlphabet == {"A", ".", " ", "\n", "1"}

FileTypes ==
    { TXT, SRT, <<"T", "X", "T">>, <<"T", "x", "t">>, <<"S", "R", "T">>,
      <<"S", "r", "t">>, <<"c", "s", "v">>, <<"t", "x", "t", " ">>, <<>> }

InitParse ==
    /\ ppc = "input"
    /\ file_object \in Strings(ContentAlphabet, MaxContentLen)
    /\ file_type_arg \in FileTypes
    /\ parsed = NoResult
    /\ ClientIs(Idle)
    /\ NormIdle
    /\ BulletIdle
    /\ AppIdle

Parse ==
    /\ ppc = "input"
    /\ parsed' = parse_transcript_data(file_object, file_type_arg)
    /\ ppc' = "done"
    /\ UNCHANGED <<file_object, file_type_arg, client_vars, norm_vars, bullet_vars, app_vars>>

NextParse == Parse

SpecParse == InitParse /\ [][NextParse]_vars

(***************************************************************************)
(* parse_srt_transcript on subtitle files of a few lines                   *)
(***************************************************************************)
SrtTimestamp ==
    <<"0", "0", ":", "0", "0", ":", "0", "0", ",", "0", "0", "0",
      " ", "-", "-", ">", " ",
      "0", "0", ":", "0", "0", ":", "0", "2", ",", "5", "0", "0">>

\* a timestamp line whose end time is missing
SrtMalformedTimestamp ==
    <<"0", "0", ":", "0", "0", ":", "0", "1", ",", "0", "0", "0", " ", "-", "-", ">">>

\* the lines a file is made of: an index, a timestamp, a malformed timestamp,
\* text, punctuation alone, an empty line and a line of white space
SrtLines ==
    { <<"1", "2">>, SrtTimestamp, SrtMalformedTimestamp, <<"H", "i", ".">>,
      <<".">>, <<>>, <<" ">> }

\* "\n".join(lines)
RECURSIVE JoinNewline(_)
JoinNewline(lines) ==
    IF lines = <<>> THEN <<>>
    ELSE IF Len(lines) = 1 THEN lines[1]
    ELSE lines[1] \o <<"\n">> \o JoinNewline(Tail(lines))

SrtContents ==
    { JoinNewline(ls) : ls \in UNION { [1..k -> SrtLines] : k \in 1..MaxSrtLines } }

InitSrt ==
    /\ ppc = "input"
    /\ file_object \in SrtContents
    /\ file_type_arg = SRT
    /\ parsed = NoResult
    /\ ClientIs(Idle)
    /\ NormIdle
    /\ BulletIdle
    /\ AppIdle

SpecSrt == InitSrt /\ [][NextParse]_vars

(***************************************************************************)
(* The analysis functions (gemini_meeting_api.py)                          *)
(***************************************************************************)
\* s.find(p, i - 1) + 1: where p first occurs in s at or after i; 0 when it
\* does not
RECURSIVE FindFrom(_, _, _)
FindFrom(s, p, i) ==
    IF i + Len(p) - 1 > Len(s) THEN 0
    ELSE IF StartsWithAt(s, i, p) THEN i
    ELSE FindFrom(s, p, i + 1)

\* p in s
Contains(s, p) == FindFrom(s, p, 1) # 0

\* s.split(sep)
RECURSIVE split(_, _)
split(s, sep) ==
    LET k == FindFrom(s, sep, 1)
    IN IF k = 0 THEN <<s>>
       ELSE <<SubSeq(s, 1, k - 1)>> \o split(SubSeq(s, k + Len(sep), Len(s)), sep)

\* a faulty variant: one item per line of the response
LineItems(raw_response) ==
    LET parts == split(raw_response, <<"\n">>)
    IN SelectSeq([i \in 1..Len(parts) |-> strip(parts[i])], NonEmpty)

\* [item.strip() for item in raw_response.split('- ') if item.strip()]
BulletItems(raw_response) ==
    LET parts == split(raw_response, <<"-", " ">>)
    IN SelectSeq([i \in 1..Len(parts) |-> strip(parts[i])], NonEmpty)

\* a faulty variant: the sentinel text is not taken for a summary
SummaryUnlessSentinel(raw_response) ==
    IF raw_response = SentinelMsg THEN <<>> ELSE raw_response

\* get_meeting_summary, given what the client returned
get_meeting_summary(raw_response) == raw_response

\* extract_action_items, given what the client returned
extract_action_items(raw_response) ==
    IF Contains(raw_response, <<"No action items identified">>) THEN <<>>
    ELSE BulletItems(raw_response)

\* highlight_key_decisions, given what the client returned
highlight_key_decisions(raw_response) ==
    IF Contains(raw_response, <<"No key decisions identified">>) THEN <<>>
    ELSE BulletItems(raw_response)

(***************************************************************************)
(* extract_action_items and highlight_key_decisions on short responses     *)
(***************************************************************************)
\* what a response is made of: bullet dashes, spaces, letters and the two
\* marker phrases
ResponseAlphabet ==
    {"-", " ", "a", "b", "No action items identified", "No key decisions identified"}

InitBullets ==
    /\ bpc = "input"
    /\ client_response \in Strings(ResponseAlphabet, MaxResponseLen)
    /\ extracted_items = <<>>
    /\ highlighted_decisions = <<>>
    /\ ClientIs(Idle)
    /\ NormIdle
    /\ ParseIdle
    /\ AppIdle

\* lines 168-173 of extract_action_items
ExtractActionItems ==
    /\ bpc = "input"
    /\ extracted_items' = extract_action_items(client_response)
    /\ bpc' = "action_items"
    /\ UNCHANGED <<client_response, highlighted_decisions, client_vars, norm_vars,
                   parse_vars, app_vars>>

\* lines 196-201 of highlight_key_decisions
HighlightKeyDecisions ==
    /\ bpc = "action_items"
    /\ highlighted_decisions' = highlight_key_decisions(client_response)
    /\ bpc' = "key_decisions"
    /\ UNCHANGED <<client_response, extracted_items, client_vars, norm_vars,
                   parse_vars, app_vars>>

NextBullets == ExtractActionItems \/ HighlightKeyDecisions

SpecBullets == InitBullets /\ [][NextBullets]_vars

(***************************************************************************)
(* The Streamlit script (app.py)                                           *)
(***************************************************************************)
File(name, valid, content) ==
    [kind |-> "file", name |-> name, valid_utf8 |-> valid, content |-> content]

SrtSample ==
    <<"1", "\n",
      "0", "0", ":", "0", "0", ":", "0", "0", ",", "0", "0", "0",
      " ", "-", "-", ">", " ",
      "0", "0", ":", "0", "0", ":", "0", "2", ",", "5", "0", "0", "\n",
      "H", "i", ".", "\n", "\n">>

\* the files the user may pick; the uploader admits the extensions txt and srt
Files ==
    { File(<<"a", ".", "t", "x", "t">>, TRUE, <<"H", "i", ".", "\n", "A", "\n">>),
      File(<<"a", ".", "t", "x", "t">>, TRUE, <<"B">>),
      File(<<"b", ".", "s", "r", "t">>, TRUE, SrtSample),
      File(<<"c", ".", "T", "X", "T">>, TRUE, <<"A">>),
      File(<<"d", ".", "t", "x", "t">>, FALSE, <<>>),
      File(<<"e", ".", "t", "x", "t">>, TRUE, <<".", "\n">>) }

DiscussionTopics ==
    <<"project progress", "design review", "content approval",
      "analytics dashboard", "budget allocation", "influencer outreach">>

\* name.split('.')[-1]
RECURSIVE LastDotPart(_)
LastDotPart(name) ==
    LET k == FindFrom(name, <<".">>, 1)
    IN IF k = 0 THEN name ELSE LastDotPart(SubSeq(name, k + 1, Len(name)))

\* uploaded_file.getvalue().decode("utf-8")
Decode(f) ==
    IF f.valid_utf8 THEN Return(f.content)
    ELSE Raise([type |-> "UnicodeDecodeError",
                msg |-> <<"'utf-8' codec can't decode byte">>])

\* except ValueError (UnicodeDecodeError is a ValueError)
IsValueError(e) == e.type \in {"ValueError", "UnicodeDecodeError"}

\* the try block of the upload branch: what it yields or raises
TryParse(f, ft) ==
    LET decoded == Decode(f)
    IN IF decoded.kind = "raise" THEN decoded
       ELSE parse_transcript_data(decoded.value, ft)

\* the text st.error shows for exception e
ParsingErrorText(e) ==
    IF IsValueError(e)
    THEN <<"Transcript Parsing Error: ">> \o e.msg
            \o <<". Please check file format and content.">>
    ELSE <<"An unexpected error occurred during file parsing: ">> \o e.msg

\* last_uploaded_file_name after the block has run on f with outcome r
NameAfter(f, r) == IF r.kind = "return" THEN f.name ELSE NoneStr

\* if st.session_state.last_uploaded_file_name != uploaded_file.name
IsNewUpload(f) == last_uploaded_file_name # f.name

\* the upload branch on file f, to its st.rerun()
ProcessUpload(f) ==
    LET ft == lower(LastDotPart(f.name))
        r == TryParse(f, ft)
    IN /\ SessionBecomes(
              [transcript_text |-> IF r.kind = "return" THEN JoinSpace(r.value) ELSE <<>>,
               file_type |-> ft,
               meeting_summary |-> <<>>,
               action_items |-> <<>>,
               key_decisions |-> <<>>,
               discussion_topics |-> <<>>,
               analysis_completed |-> FALSE,
               last_uploaded_file_name |-> NameAfter(f, r)])
       /\ st_error' = IF r.kind = "return" THEN <<>> ELSE ParsingErrorText(r.exc)
       /\ apc' = "rerun"

\* a run of the script with file f in the uploader and no button pressed
RunScript(f) ==
    IF f # None /\ IsNewUpload(f)
    THEN ProcessUpload(f)
    ELSE /\ apc' = "rest"
         /\ st_error' = <<>>
         /\ UNCHANGED session_vars

Count(n) == IF n < UploadRunsCap THEN n + 1 ELSE UploadRunsCap

\* the user puts file f into the uploader
Upload ==
    /\ apc \in {"rest", "rerun"}
    /\ \E f \in Files :
        /\ f # uploaded_file
        /\ uploaded_file' = f
        /\ RunScript(f)
        /\ upload_runs' = IF IsNewUpload(f) THEN 1 ELSE 0
    /\ UNCHANGED <<client_vars, norm_vars, parse_vars, bullet_vars>>

\* the user removes the file from the uploader
RemoveFile ==
    /\ apc \in {"rest", "rerun"}
    /\ uploaded_file # None
    /\ uploaded_file' = None
    /\ RunScript(None)
    /\ upload_runs' = 0
    /\ UNCHANGED <<client_vars, norm_vars, parse_vars, bullet_vars>>

\* st.rerun(): the script runs again by itself
Rerun ==
    /\ apc = "rerun"
    /\ RunScript(uploaded_file)
    /\ upload_runs' =
          IF uploaded_file # None /\ IsNewUpload(uploaded_file)
          THEN Count(upload_runs) ELSE upload_runs
    /\ UNCHANGED <<uploaded_file, client_vars, norm_vars, parse_vars, bullet_vars>>

\* a faulty variant: the button stays on the page after an analysis
RunButtonShownAfterAnalysis ==
    /\ uploaded_file # None
    /\ ~IsNewUpload(uploaded_file)
    /\ transcript_text # <<>>

\* a faulty variant: the button is on the page for an empty transcript too
RunButtonShownWithoutText ==
    /\ uploaded_file # None
    /\ ~IsNewUpload(uploaded_file)
    /\ ~analysis_completed

\* the Run AI Meeting Analysis button is on the page
RunButtonShown ==
    /\ uploaded_file # None
    /\ ~IsNewUpload(uploaded_file)
    /\ transcript_text # <<>>
    /\ ~analysis_completed

\* the user presses Run AI Meeting Analysis: get_meeting_summary calls the client
ClickRun ==
    /\ apc = "rest"
    /\ RunButtonShown
    /\ apc' = "summary"
    /\ st_error' = <<>>
    /\ upload_runs' = 0
    /\ ClientBecomes(Entered(DefaultMaxRetries, DefaultInitialDelay))
    /\ UNCHANGED <<uploaded_file, session_vars, norm_vars, parse_vars, bullet_vars>>

\* an exception out of an analysis function ends the script run
AnalysisAborted ==
    /\ apc' = "rest"
    /\ ClientBecomes(Idle)
    /\ UNCHANGED session_vars

\* the client has returned to get_meeting_summary; extract_action_items calls it
SummaryReturns ==
    /\ apc = "summary"
    /\ cpc = "done"
    /\ IF cret.kind = "return"
       THEN /\ meeting_summary' = get_meeting_summary(cret.value)
            /\ apc' = "action_items"
            /\ ClientBecomes(Entered(DefaultMaxRetries, DefaultInitialDelay))
            /\ UNCHANGED <<transcript_text, file_type, action_items, key_decisions,
                           discussion_topics, analysis_completed,
                           last_uploaded_file_name>>
       ELSE AnalysisAborted
    /\ UNCHANGED <<uploaded_file, st_error, upload_runs, norm_vars, parse_vars, bullet_vars>>

\* the client has returned to extract_action_items; highlight_key_decisions calls it
ActionItemsReturn ==
    /\ apc = "action_items"
    /\ cpc = "done"
    /\ IF cret.kind = "return"
       THEN /\ action_items' = extract_action_items(cret.value)
            /\ apc' = "key_decisions"
            /\ ClientBecomes(Entered(DefaultMaxRetries, DefaultInitialDelay))
            /\ UNCHANGED <<transcript_text, file_type, meeting_summary, key_decisions,
                           discussion_topics, analysis_completed,
                           last_uploaded_file_name>>
       ELSE AnalysisAborted
    /\ UNCHANGED <<uploaded_file, st_error, upload_runs, norm_vars, parse_vars, bullet_vars>>

\* the client has returned to highlight_key_decisions; the handler ends with
\* analysis_completed set and st.rerun()
KeyDecisionsReturn ==
    /\ apc = "key_decisions"
    /\ cpc = "done"
    /\ IF cret.kind = "return"
       THEN /\ key_decisions' = highlight_key_decisions(cret.value)
            /\ discussion_topics' =
                  IF meeting_summary # <<>> THEN DiscussionTopics
                  ELSE discussion_topics
            /\ analysis_completed' = TRUE
            /\ apc' = "rerun"
            /\ ClientBecomes(Idle)
            /\ UNCHANGED <<transcript_text, file_type, meeting_summary, action_items,
                           last_uploaded_file_name>>
       ELSE AnalysisAborted
    /\ UNCHANGED <<uploaded_file, st_error, upload_runs, norm_vars, parse_vars, bullet_vars>>

\* the user presses Reset Application: st.session_state.clear(), then the
\* rerun starts from the defaults of lines 47-62; the uploader has no key, and
\* whether it keeps its file is the framework's choice
ClickReset ==
    /\ apc = "rest"
    /\ analysis_completed
    /\ SessionBecomes(SessionDefaults)
    /\ uploaded_file' \in {uploaded_file, None}
    /\ apc' = "rerun"
    /\ st_error' = <<>>
    /\ upload_runs' = 0
    /\ UNCHANGED <<client_vars, norm_vars, parse_vars, bullet_vars>>

\* the service answers a call made by an analysis function
ServiceAnswers ==
    /\ apc \in {"summary", "action_items", "key_decisions"}
    /\ GenerateReturns \/ GenerateRateLimited \/ GenerateFails
    /\ UNCHANGED <<norm_vars, parse_vars, bullet_vars, app_vars>>

Init ==
    /\ AppIdle
    /\ ClientIs(Idle)
    /\ NormIdle
    /\ BulletIdle
    /\ ParseIdle

Next ==
    \/ Upload
    \/ RemoveFile
    \/ Rerun
    \/ ClickRun
    \/ ServiceAnswers
    \/ SummaryReturns
    \/ ActionItemsReturn
    \/ KeyDecisionsReturn
    \/ ClickReset

Spec == Init /\ [][Next]_vars

(***************************************************************************)
(* The Run AI Meeting Analysis handler on a loaded transcript              *)
(***************************************************************************)
\* a plain-text file and a subtitle file
AnalysisFiles ==
    { f \in Files : f.content \in {<<"H", "i", ".", "\n", "A", "\n">>, SrtSample} }

\* st.session_state once file f has been uploaded and parsed
Loaded(f) ==
    LET ft == lower(LastDotPart(f.name))
    IN [transcript_text |-> JoinSpace(TryParse(f, ft).value),
        file_type |-> ft,
        meeting_summary |-> <<>>, action_items |-> <<>>, key_decisions |-> <<>>,
        discussion_topics |-> <<>>, analysis_completed |-> FALSE,
        last_uploaded_file_name |-> f.name]

\* the page at rest after the upload of f, the Run button on it
AppLoaded(f) ==
    /\ uploaded_file = f
    /\ SessionIs(Loaded(f))
    /\ apc = "rest"
    /\ st_error = <<>>
    /\ upload_runs = 1

InitAnalysis ==
    /\ \E f \in AnalysisFiles : AppLoaded(f)
    /\ ClientIs(Idle)
    /\ NormIdle
    /\ BulletIdle
    /\ ParseIdle

\* a step of the handler, which runs synchronously
AnalysisStep ==
    \/ ServiceAnswers
    \/ SummaryReturns
    \/ ActionItemsReturn
    \/ KeyDecisionsReturn

NextAnalysis ==
    \/ ClickRun
    \/ ServiceAnswers
    \/ SummaryReturns
    \/ ActionItemsReturn
    \/ KeyDecisionsReturn
    \/ Rerun

SpecAnalysis == InitAnalysis /\ [][NextAnalysis]_vars

\* the handler runs on once started: every service call returns or raises,
\* and every return of the client is followed by the handler's next line
FairSpecAnalysis == SpecAnalysis /\ WF_vars(AnalysisStep)

\* the number of generate_content calls made so far
calls == Len(outcomes)

(***************************************************************************)
(* Properties of make_gemini_call_with_retry                               *)
(***************************************************************************)
RateLimitedAt(i) ==
    /\ outcomes[i].kind = "raise"
    /\ outcomes[i].exc.type = "ResourceExhausted"

FailedAt(i) ==
    /\ outcomes[i].kind = "raise"
    /\ outcomes[i].exc.type # "ResourceExhausted"

ReturnedAt(i) == outcomes[i].kind = "return"

AllRateLimited == \A i \in 1..calls : RateLimitedAt(i)

TwoRateLimitsThenText ==
    /\ max_retries = 7
    /\ initial_delay = 1
    /\ calls >= 3
    /\ RateLimitedAt(1)
    /\ RateLimitedAt(2)
    /\ ReturnedAt(3)
    /\ outcomes[3].resp # None
    /\ outcomes[3].resp.text # <<>>

\* C1: with the defaults (max_retries = 7, initial_delay = 1.0), when the
\* first two service calls raise ResourceExhausted and the third returns
\* non-empty text, the client returns that text trimmed, after exactly three
\* service calls and exactly two sleeps, of 1.0 then 2.0.
C1_TwoRateLimitsThenSuccess ==
    TwoRateLimitsThenText =>
        /\ cpc = "done"
        /\ calls = 3
        /\ sleeps = <<1, 2>>
        /\ cret = [kind |-> "return", value |-> strip(outcomes[3].resp.text)]

C1_Witness ==
    /\ TwoRateLimitsThenText
    /\ cpc = "done"
    /\ outcomes[3].resp.text = <<" ", "o", "k", "\n">>
    /\ cret.value = <<"o", "k">>
    /\ sleeps = <<1, 2>>

\* C2: when every service call raises ResourceExhausted, the client makes
\* max_retries service calls and no more, then returns (does not raise) the
\* failure string that embeds the last error.
C2_RetriesExhausted ==
    AllRateLimited =>
        /\ calls <= max_retries
        /\ cret.kind # "raise"
        /\ cpc = "done" =>
            /\ calls = max_retries
            /\ cret.kind = "return"
            /\ max_retries >= 1 =>
                cret.value = <<"Failed to get response after ", ToString(max_retries),
                               " retries due to quota/rate limit: ",
                               outcomes[calls].exc.msg>>

C2_Witness ==
    /\ AllRateLimited
    /\ cpc = "done"
    /\ max_retries = 7
    /\ calls = 7
    /\ outcomes[1].exc.msg = "429 rate"
    /\ outcomes[7].exc.msg = "429 quota"
    /\ cret.value[4] = "429 quota"

\* C3: when a service call raises an exception other than ResourceExhausted,
\* on whichever attempt, the client returns a descriptive error string at
\* once: that call is the last one and no sleep follows it.
C3_OtherExceptionReturnsImmediately ==
    \A i \in 1..calls :
        FailedAt(i) =>
            /\ i = calls
            /\ cpc = "done"
            /\ cret = [kind |-> "return",
                       value |-> <<"An unexpected API error occurred: ",
                                   outcomes[i].exc.msg>>]
            /\ Len(sleeps) = i - 1

C3_Witness ==
    /\ calls = 3
    /\ RateLimitedAt(1)
    /\ RateLimitedAt(2)
    /\ FailedAt(3)
    /\ cpc = "done"
    /\ sleeps = <<initial_delay, 2 * initial_delay>>

\* C4: when a service call succeeds but yields no response object or no
\* usable text, the client returns the fixed sentinel message, not an error
\* string, without retrying.
C4_EmptyResponseYieldsSentinel ==
    \A i \in 1..calls :
        (ReturnedAt(i) /\ (outcomes[i].resp = None \/ outcomes[i].resp.text = <<>>)) =>
            /\ i = calls
            /\ cpc = "done"
            /\ cret = [kind |-> "return",
                       value |-> <<"AI response was empty or blocked, possibly due to safety settings.">>]

C5_Safety ==
    /\ calls <= max_retries
    /\ cret.kind # "raise"
    /\ cpc = "done" => (cret.kind = "return" /\ cret.value \in Seq(STRING))

\* C5: whatever the service does on each call, every invocation terminates
\* after at most max_retries service calls and returns a string; no
\* exception escapes.
C5_TerminatesWithString == []C5_Safety /\ <>(cpc = "done")

C5_Witness ==
    /\ cpc = "done"
    /\ max_retries = 7
    /\ calls = 7
    /\ ReturnedAt(7)
    /\ outcomes[7].resp = None
    /\ cret.kind = "return"

(***************************************************************************)
(* Properties of parse_transcript_data and preprocess_text                 *)
(***************************************************************************)
\* C6: a file_type that spells a supported tag in upper or mixed case is
\* accepted and yields the utterances the lower-case tag yields.
C6_FileTypeCaseInsensitive ==
    ppc = "done" =>
        /\ lower(file_type_arg) = <<"t", "x", "t">> =>
            /\ parsed.kind = "return"
            /\ parsed.value = parse_txt_transcript(file_object)
        /\ lower(file_type_arg) = <<"s", "r", "t">> =>
            /\ parsed.kind = "return"
            /\ parsed.value = parse_srt_transcript(file_object)

\* C7: for every file_type other than 'txt' and 'srt' the dispatcher raises
\* the unsupported-type error, whose message carries the type, and runs
\* neither parser: the file object is not read.
C7_UnsupportedTypeRejected ==
    (ppc = "done" /\ file_type_arg \notin {<<"t", "x", "t">>, <<"s", "r", "t">>}) =>
        /\ parsed.kind = "raise"
        /\ parsed.exc.type = "ValueError"
        /\ parsed.exc.msg =
              <<"Unsupported transcript file type: ">> \o file_type_arg
                  \o <<". Only TXT and SRT are supported.">>
        /\ parsed.parser = "none"
        /\ ~parsed.read

C7_Witness ==
    /\ ppc = "done"
    /\ file_type_arg = <<"c", "s", "v">>
    /\ file_object = <<"A", ".", "\n", "A">>
    /\ parsed.kind = "raise"
    /\ parsed.exc.msg[2] = "c"

\* C10: preprocess_text is idempotent: applied to its own result it returns
\* that result.
C10_PreprocessIdempotent == npc = "twice" => twice = once

(***************************************************************************)
(* Properties of the upload handling of app.py                             *)
(***************************************************************************)
\* the step puts a new file into the uploader
NewFileUploaded == uploaded_file' # None /\ uploaded_file' # uploaded_file

\* the transcript text that file f gives
TranscriptOf(f) ==
    LET r == TryParse(f, lower(LastDotPart(f.name)))
    IN IF r.kind = "return" THEN JoinSpace(r.value) ELSE <<>>

\* after the step the session holds no analysis result, and text t
OverwrittenWith(t) ==
    /\ meeting_summary' = <<>>
    /\ action_items' = <<>>
    /\ key_decisions' = <<>>
    /\ discussion_topics' = <<>>
    /\ ~analysis_completed'
    /\ transcript_text' = t

\* C8: whenever a new file is uploaded, whatever its name or content and
\* whatever the session held, transcript_text, meeting_summary, action_items,
\* key_decisions, discussion_topics and analysis_completed are overwritten
\* together: no earlier result remains and transcript_text comes from the new
\* file alone.
C8_UploadOverwritesSession ==
    [][NewFileUploaded =>
        \E f \in Files : f = uploaded_file' /\ OverwrittenWith(TranscriptOf(f))]_vars

\* C9: when parsing an uploaded file raises, the error is reported and the
\* upload state is reset (transcript_text empty, last_uploaded_file_name
\* cleared), and the upload comes to rest: the upload block does not run on the
\* failed file again unless the user acts.
C9_FailedUploadComesToRest ==
    st_error # <<>> =>
        /\ transcript_text = <<>>
        /\ last_uploaded_file_name = NoneStr
        /\ upload_runs <= 1

(***************************************************************************)
(* Properties of the two parsers                                           *)
(***************************************************************************)
\* the members of a set of numbers, smallest first
RECURSIVE Ascending(_)
Ascending(S) ==
    IF S = {} THEN <<>>
    ELSE LET m == CHOOSE x \in S : \A y \in S : x <= y
         IN <<m>> \o Ascending(S \ {m})

\* the lines of the parsed file, each without its surrounding white space
StrippedLines ==
    LET ls == SplitNewline(file_object) IN [i \in 1..Len(ls) |-> strip(ls[i])]

Blank(line) == line = <<>>

\* where a block starts: a line that is not blank, after a blank line or first
BlockStarts(ls) ==
    { a \in 1..Len(ls) : ~Blank(ls[a]) /\ (a = 1 \/ Blank(ls[a - 1])) }

\* the last line of the block that starts at a
BlockEnd(ls, a) ==
    CHOOSE b \in a..Len(ls) :
        /\ \A i \in a..b : ~Blank(ls[i])
        /\ b = Len(ls) \/ Blank(ls[b + 1])

PureDigits(line) == line # <<>> /\ Range(line) \subseteq Digits

\* the line reads DD:DD:DD,DDD --> DD:DD:DD,DDD, each D a digit
ExactTimestamp(line) ==
    LET shape == <<"D", "D", ":", "D", "D", ":", "D", "D", ",", "D", "D", "D",
                   " ", "-", "-", ">", " ",
                   "D", "D", ":", "D", "D", ":", "D", "D", ",", "D", "D", "D">>
    IN /\ Len(line) = Len(shape)
       /\ \A i \in 1..Len(shape) :
           /\ shape[i] = "D" => line[i] \in Digits
           /\ shape[i] # "D" => line[i] = shape[i]

\* the utterance the block ls[a..b] stands for: its kept lines, joined by
\* single spaces and normalized
BlockUtterance(ls, a, b) ==
    LET kept == SelectSeq(SubSeq(ls, a, b),
                          LAMBDA l : ~PureDigits(l) /\ ~ExactTimestamp(l))
    IN preprocess_text(JoinSpace(kept))

\* one utterance per block, in block order, the empty ones left out
BlockUtterances(ls) ==
    LET starts == Ascending(BlockStarts(ls))
        each == [k \in 1..Len(starts) |->
                    BlockUtterance(ls, starts[k], BlockEnd(ls, starts[k]))]
    IN SelectSeq(each, LAMBDA u : u # <<>>)

\* C11: parse_srt_transcript yields, in block order, one utterance per block
\* delimited by blank lines: the lines of pure digits and the lines that fully
\* match DD:DD:DD,DDD --> DD:DD:DD,DDD are dropped, every other line (a
\* malformed timestamp too) is kept, the kept lines are joined by single
\* spaces and normalized, and the block is emitted iff the result is not
\* empty; a last block with no blank line after it is emitted like the others.
C11_SrtOneUtterancePerBlock ==
    (ppc = "done" /\ file_type_arg = <<"s", "r", "t">>) =>
        /\ parsed.kind = "return"
        /\ parsed.value = BlockUtterances(StrippedLines)

\* an index, a malformed timestamp and text, with no blank line at the end
C11_Witness ==
    /\ ppc = "done"
    /\ file_object = JoinNewline(<<<<"1", "2">>, SrtMalformedTimestamp, <<"H", "i", ".">>>>)
    /\ parsed.value =
          << <<"0", "0", "0", "0", "0", "1", "0", "0", "0", " ", " ", "h", "i">> >>

\* the lines of the parsed file that are not blank, in source order
NonBlankLines ==
    SelectSeq(SplitNewline(file_object), LAMBDA l : strip(l) # <<>>)

\* each line that is not blank, normalized
NormalizedLines ==
    [k \in 1..Len(NonBlankLines) |-> preprocess_text(NonBlankLines[k])]

\* C12: when every non-blank line of a plain-text input is non-empty after
\* normalization, parse_txt_transcript returns exactly one utterance per
\* non-blank line, in source order; in any input the lines whose normalized
\* text is empty are skipped, and nothing is raised.
C12_TxtOneUtterancePerLine ==
    (ppc = "done" /\ file_type_arg = <<"t", "x", "t">>) =>
        /\ parsed.kind = "return"
        /\ (\A k \in 1..Len(NormalizedLines) : NormalizedLines[k] # <<>>) =>
              /\ Len(parsed.value) = Len(NonBlankLines)
              /\ parsed.value = NormalizedLines
        /\ parsed.value = SelectSeq(NormalizedLines, LAMBDA u : u # <<>>)

\* two lines with text, a blank line between them, the last one unterminated
C12_Witness ==
    /\ ppc = "done"
    /\ file_type_arg = <<"t", "x", "t">>
    /\ file_object = <<"A", "\n", "\n", "1">>
    /\ Len(NonBlankLines) = 2
    /\ parsed.value = << <<"a">>, <<"1">> >>

(***************************************************************************)
(* Properties of extract_action_items and highlight_key_decisions          *)
(***************************************************************************)
\* where "- " occurs in r; two occurrences never overlap
DashSpaceAt(r) ==
    { i \in 1..Len(r) - 1 : r[i] = "-" /\ r[i + 1] = " " }

\* the pieces of r between the occurrences of "- ", first to last
Fragments(r) ==
    LET at == Ascending(DashSpaceAt(r))
        from(k) == IF k = 1 THEN 1 ELSE at[k - 1] + 2
        to(k) == IF k = Len(at) + 1 THEN Len(r) ELSE at[k] - 1
    IN [k \in 1..Len(at) + 1 |-> SubSeq(r, from(k), to(k))]

\* the fragments of r trimmed, those that are not empty, in order
TrimmedFragments(r) ==
    LET fs == Fragments(r)
    IN SelectSeq([k \in 1..Len(fs) |-> strip(fs[k])], LAMBDA u : u # <<>>)

\* the list a function with negative-result marker phrase m is to give for r
ItemsExpected(r, m) ==
    IF \E i \in 1..Len(r) : r[i] = m THEN <<>> ELSE TrimmedFragments(r)

\* C13: for every client response r, extract_action_items and
\* highlight_key_decisions return the empty list when r contains the
\* function's own negative-result marker phrase anywhere, and otherwise the
\* ordered list of the trimmed, non-empty fragments of r split on "- "; so
\* "- a- b" gives exactly the two items "a" and "b".
C13_BulletItems ==
    /\ bpc \in {"action_items", "key_decisions"} =>
          extracted_items = ItemsExpected(client_response, "No action items identified")
    /\ bpc = "key_decisions" =>
          highlighted_decisions = ItemsExpected(client_response, "No key decisions identified")
    /\ (bpc = "key_decisions" /\ client_response = <<"-", " ", "a", "-", " ", "b">>) =>
          /\ extracted_items = << <<"a">>, <<"b">> >>
          /\ highlighted_decisions = << <<"a">>, <<"b">> >>

\* a response with two bullets and the marker phrase of the other function
C13_Witness ==
    /\ bpc = "key_decisions"
    /\ client_response = <<"-", " ", "b", "-", " ", "No action items identified">>
    /\ extracted_items = <<>>
    /\ highlighted_decisions = << <<"b">>, <<"No action items identified">> >>

(***************************************************************************)
(* The backoff schedule of make_gemini_call_with_retry                     *)
(***************************************************************************)
RECURSIVE Pow2(_)
Pow2(n) == IF n = 0 THEN 1 ELSE 2 * Pow2(n - 1)

\* the invocation has ended on a rate-limited attempt
Exhausted == cpc = "done" /\ calls >= 1 /\ RateLimitedAt(calls)

\* C14: within one invocation the k-th backoff sleep lasts
\* initial_delay * 2^(k-1); a sleep happens only between a rate-limited
\* attempt and the next attempt; and an invocation that exhausts its retries
\* has made exactly max_retries service calls and max_retries - 1 sleeps: no
\* sleep follows the final failed attempt.
C14_ExponentialBackoff ==
    /\ \A k \in 1..Len(sleeps) :
        /\ sleeps[k] = initial_delay * Pow2(k - 1)
        /\ RateLimitedAt(k)
    /\ cpc = "loop" => Len(sleeps) = calls
    /\ (cpc = "done" /\ calls >= 1) => Len(sleeps) = calls - 1
    /\ Exhausted =>
        /\ calls = max_retries
        /\ Len(sleeps) = max_retries - 1

C14_Witness ==
    /\ Exhausted
    /\ max_retries = 7
    /\ initial_delay = 2
    /\ calls = 7
    /\ sleeps = <<2, 4, 8, 16, 32, 64>>

(***************************************************************************)
(* Properties of the Run AI Meeting Analysis handler                       *)
(***************************************************************************)
\* after the step a client invocation starts with the default parameters, no
\* attempt counted and the initial delay
FreshInvocation ==
    /\ cpc' = "loop"
    /\ max_retries' = 7
    /\ initial_delay' = 1
    /\ retries' = 0
    /\ delay' = 1
    /\ outcomes' = <<>>
    /\ sleeps' = <<>>

\* the step leaves analysis phase p
Leaves(p) == apc = p /\ apc' # p

\* get_meeting_summary is called first, extract_action_items after it, then
\* highlight_key_decisions, each call of the client a fresh invocation whose
\* returned string is stored, and the handler ends with analysis_completed set
C15_InOrder ==
    /\ (apc # "summary" /\ apc' = "summary") =>
          /\ apc = "rest"
          /\ transcript_text # <<>>
          /\ FreshInvocation
    /\ Leaves("summary") =>
          /\ cpc = "done"
          /\ cret.kind = "return"
          /\ meeting_summary' = cret.value
          /\ apc' = "action_items"
          /\ FreshInvocation
    /\ Leaves("action_items") =>
          /\ cpc = "done"
          /\ cret.kind = "return"
          /\ action_items' = ItemsExpected(cret.value, "No action items identified")
          /\ meeting_summary' = meeting_summary
          /\ apc' = "key_decisions"
          /\ FreshInvocation
    /\ Leaves("key_decisions") =>
          /\ cpc = "done"
          /\ cret.kind = "return"
          /\ key_decisions' = ItemsExpected(cret.value, "No key decisions identified")
          /\ meeting_summary' = meeting_summary
          /\ action_items' = action_items
          /\ analysis_completed'
    /\ (apc' \in {"action_items", "key_decisions"} /\ apc' # apc) =>
          apc = IF apc' = "action_items" THEN "summary" ELSE "action_items"

\* C15: once Run AI Meeting Analysis is pressed on a loaded transcript the
\* handler runs to completion whatever the service does: the client is
\* invoked for the summary, then for the action items, then for the key
\* decisions, each time with a fresh attempt counter and delay; what it
\* returns is stored as the result, failure and sentinel texts too; and
\* analysis_completed eventually becomes true.
C15_AnalysisRunsToCompletion ==
    /\ [][C15_InOrder]_vars
    /\ (apc = "summary") ~> analysis_completed

\* an analysis completed on nothing but failure and sentinel texts
C15_Witness ==
    /\ analysis_completed
    /\ meeting_summary = <<"An unexpected API error occurred: ", "500 internal">>
    /\ action_items =
          << <<"AI response was empty or blocked, possibly due to safety settings.">> >>
    /\ key_decisions =
          << <<"Failed to get response after ", "7",
               " retries due to quota/rate limit: ", "429 quota">> >>

\* the page the analysis starts from is one the app reaches by an upload
LoadedByUpload ==
    /\ AppLoaded(CHOOSE f \in AnalysisFiles : f.content = SrtSample)
    /\ cpc = "idle"

\* an analysis function is running
Analysing == apc \in {"summary", "action_items", "key_decisions"} \/ cpc # "idle"

\* the step processes a newly uploaded file
UploadProcessed ==
    /\ uploaded_file' # None
    /\ last_uploaded_file_name # uploaded_file'.name
    /\ apc' = "rerun"

\* the step is the reset of the application
ResetDone ==
    /\ apc = "rest"
    /\ apc' = "rerun"
    /\ transcript_text' = <<>>
    /\ last_uploaded_file_name' = <<"None">>

\* from a state with analysis_completed set, a step starts no analysis
\* function and makes no service call, and it clears analysis_completed only
\* by processing a new upload or by the reset
C16_Step ==
    analysis_completed =>
        /\ ~Analysing
        /\ ~Analysing'
        /\ outcomes' = outcomes
        /\ ~analysis_completed' => (UploadProcessed \/ ResetDone)

\* C16: analysis results are produced at most once per uploaded transcript:
\* after analysis_completed has become true no analysis function is invoked,
\* and so no service call made, until a new transcript upload or the reset of
\* the application has returned analysis_completed to false.
C16_AnalysisAtMostOnce == [][C16_Step]_vars

\* the page at rest after an analysis, the analysed file still in the uploader
C16_Witness ==
    /\ analysis_completed
    /\ apc = "rest"
    /\ uploaded_file # None
    /\ last_uploaded_file_name = uploaded_file.name
    /\ transcript_text # <<>>
    /\ meeting_summary # <<>>

\* C17: in every reachable state, whatever uploads (successful, empty or
\* failing), analysis runs and resets came before, analysis_completed implies
\* that transcript_text is not empty; and no analysis function runs, so the
\* service is not called, on a transcript that parsed to no utterance.
C17_CompletedImpliesTranscript ==
    /\ analysis_completed => transcript_text # <<>>
    /\ Analysing => transcript_text # <<>>
    /\ calls > 0 => transcript_text # <<>>

\* an analysis completed, then the file taken out of the uploader
C17_Witness ==
    /\ analysis_completed
    /\ transcript_text = <<"h", "i">>
    /\ uploaded_file = None
    /\ apc = "rest"

(***************************************************************************)
(* What make_gemini_call_with_retry returns                                *)
(***************************************************************************)
\* C18: make_gemini_call_with_retry never returns the empty string: for
\* every service response (a response whose text is white space alone too)
\* and every error outcome, the returned string is non-empty generated text,
\* the sentinel message or a non-empty failure message.
C18_NeverReturnsEmpty ==
    cpc = "done" =>
        /\ cret.kind = "return"
        /\ cret.value # <<>>
        /\ \/ (calls >= 1 /\ ReturnedAt(calls) /\ outcomes[calls].resp # None
                 /\ cret.value = strip(outcomes[calls].resp.text))
           \/ cret.value = <<"AI response was empty or blocked, possibly due to safety settings.">>
           \/ cret.value[1] \in {"Failed to get response after ",
                                 "An unexpected API error occurred: ",
                                 "Failed to get response after multiple retries (unknown reason)."}
====
